---- MODULE Spec2Model ----
(***************************************************************************)
(* Key-triples pipeline of doc/notebooks/key_triples_walkthrough.ipynb:    *)
(* load the observed and the emulated triples, build both networks,        *)
(* difference the node centralities, score every observed triple by the    *)
(* gains of its head and tail, and keep the top num_results triples with   *)
(* their labels.  The notebook is a straight-line program; pc names the    *)
(* source line about to run (l55 = line 55 of the notebook file).          *)
(*                                                                         *)
(* Scores are real numbers in the program.  Only comparison, addition and  *)
(* subtraction are applied to them, so they are modelled by integers.      *)
(* The centrality routine is the networkx library's: its result is any     *)
(* score per node of the graph it was given.                               *)
(***************************************************************************)
EXTENDS Integers, Sequences, FiniteSets, TLC

VARIABLES pc, ofile, nfile, triples, new, ents, rels, neto, netn, net,
          result, gains, num_results, trip_scores, i, idxs, top, results

vars == <<pc, ofile, nfile, triples, new, ents, rels, neto, netn, net,
          result, gains, num_results, trip_scores, i, idxs, top, results>>

---------------------------------------------------------------------------
(* Bounds of the model *)

\* entity ids are 0..MaxNode
MaxNode == 1
\* relation ids are 0..MaxRel
MaxRel == 1
\* rows of an input triple file
MaxRows == 2
\* centrality scores are 0..MaxScore
MaxScore == 1
\* num_results ranges over -MaxNegK..MaxK
MaxK == 3
MaxNegK == 1

Nodes == 0..MaxNode
Rels == 0..MaxRel
Scores == 0..MaxScore
Deltas == (0 - MaxScore)..MaxScore
Ks == (0 - MaxNegK)..MaxK

\* the decimal text of an id, as the text files hold it
Dec(n) == <<"0", "1", "2", "3", "4", "5", "6", "7", "8", "9">>[n + 1]

\* a row of a triple file: the texts of head, tail and relation
TextRows == {<<Dec(h), Dec(t), Dec(r)>> : h \in Nodes, t \in Nodes, r \in Rels}

\* the contents the observed triple file can have
Files == UNION {[1..n -> TextRows] : n \in 1..MaxRows}

\* the emulated graph expands the observed one: its file may name one entity
\* more
NewNodes == 0..(MaxNode + 1)

NewTextRows ==
    {<<Dec(h), Dec(t), Dec(r)>> : h \in NewNodes, t \in NewNodes, r \in Rels}

\* the contents the emulated triple file can have
NewFiles == UNION {[1..n -> NewTextRows] : n \in 1..MaxRows}

---------------------------------------------------------------------------
(* Python and numpy helpers *)

Range(s) == {s[j] : j \in DOMAIN s}

Min(a, b) == IF a <= b THEN a ELSE b

Max(a, b) == IF a >= b THEN a ELSE b

\* seq[:k], k of either sign
PySliceTo(s, k) ==
    IF k >= 0 THEN SubSeq(s, 1, Min(k, Len(s)))
    ELSE SubSeq(s, 1, Max(0, Len(s) + k))

\* seq[-n:] for n >= 1 and seq[len(seq):] for n = 0: the last n entries
PyLast(s, n) == SubSeq(s, Len(s) - Min(n, Len(s)) + 1, Len(s))

\* seq[::-1]
Reverse(s) == [j \in 1..Len(s) |-> s[Len(s) + 1 - j]]

\* a dict is the sequence of its <<key, value>> items in insertion order
DictKeys(d) == {d[j][1] : j \in DOMAIN d}

DictGet(d, k, default) ==
    IF k \in DictKeys(d)
    THEN d[CHOOSE j \in DOMAIN d : d[j][1] = k][2]
    ELSE default

\* d[k] = v: an existing key keeps its place, a new key goes last
DictSet(d, k, v) ==
    IF k \in DictKeys(d)
    THEN [j \in DOMAIN d |-> IF d[j][1] = k THEN <<k, v>> ELSE d[j]]
    ELSE Append(d, <<k, v>>)

\* lexicographic order of integer rows, the order of np.unique(axis=0)
RowLess(a, b) ==
    \/ a[1] < b[1]
    \/ a[1] = b[1] /\ a[2] < b[2]
    \/ a[1] = b[1] /\ a[2] = b[2] /\ a[3] < b[3]

RECURSIVE SortedRows(_)
SortedRows(S) ==
    IF S = {} THEN <<>>
    ELSE LET m == CHOOSE x \in S : \A y \in S : x = y \/ RowLess(x, y)
         IN <<m>> \o SortedRows(S \ {m})

\* the rows of a file without its repeated rows, first occurrences in file order
RECURSIVE FirstOccurrences(_)
FirstOccurrences(rows) ==
    IF rows = <<>> THEN <<>>
    ELSE LET front == FirstOccurrences(SubSeq(rows, 1, Len(rows) - 1))
             last == rows[Len(rows)]
         IN IF last \in Range(front) THEN front ELSE Append(front, last)

NpUniqueKeepOrder(rows) == FirstOccurrences(rows)

\* np.unique(triples, axis=0): the distinct rows, sorted
NpUnique(rows) == SortedRows(Range(rows))

---------------------------------------------------------------------------
(* Cells 3 and 4: loading the triples and building the networks *)

\* read_txt: the rows of the file, in file order, each a list of field texts
ReadTxt(file) == file

\* int(text) of a decimal field
AsInt(text) == CHOOSE n \in 0..9 : Dec(n) = text

\* np.array(rows).astype(int)
AsTypeInt(rows) == [j \in DOMAIN rows |-> [c \in 1..3 |-> AsInt(rows[j][c])]]

\* get_items: the texts of a lookup file as a list indexed by id
ItemsTable(prefix, n) == [j \in 1..n |-> prefix \o Dec(j - 1)]

\* the entity tables: complete, or lacking the last entity id
EntTables == {ItemsTable("e", n) : n \in {MaxNode, MaxNode + 1}}

\* the relation tables: complete, or lacking the last relation id
RelTables == {ItemsTable("r", n) : n \in {MaxRel, MaxRel + 1}}

AddNode(nodes, n) == IF n \in Range(nodes) THEN nodes ELSE Append(nodes, n)

\* the nodes of the rows in order of first appearance (head before tail)
RECURSIVE NodeOrder(_)
NodeOrder(rows) ==
    IF rows = <<>> THEN <<>>
    ELSE LET front == NodeOrder(SubSeq(rows, 1, Len(rows) - 1))
             last == rows[Len(rows)]
         IN AddNode(AddNode(front, last[1]), last[2])

\* build_network: a directed graph, one edge head -> tail per distinct row,
\* tagged with the relation id; nodes in insertion order
BuildNetwork(rows) ==
    [nodes |-> NodeOrder(rows), edges |-> Range(rows)]

\* line 55-56
ReadObserved ==
    /\ pc = "l55"
    /\ triples' = AsTypeInt(ReadTxt(ofile))
    /\ pc' = "l57"
    /\ UNCHANGED <<ofile, nfile, new, ents, rels, neto, netn, net, result,
                   gains, num_results, trip_scores, i, idxs, top, results>>

\* line 57
UniqueObserved ==
    /\ pc = "l57"
    /\ triples' = NpUnique(triples)
    /\ pc' = "l59"
    /\ UNCHANGED <<ofile, nfile, new, ents, rels, neto, netn, net, result,
                   gains, num_results, trip_scores, i, idxs, top, results>>

\* line 59-60
GetItems ==
    /\ pc = "l59"
    /\ \E e \in EntTables, r \in RelTables : ents' = e /\ rels' = r
    /\ pc' = "l78"
    /\ UNCHANGED <<ofile, nfile, triples, new, neto, netn, net, result,
                   gains, num_results, trip_scores, i, idxs, top, results>>

\* line 78-79
ReadNew ==
    /\ pc = "l78"
    /\ new' = AsTypeInt(ReadTxt(nfile))
    /\ pc' = "l82"
    /\ UNCHANGED <<ofile, nfile, triples, ents, rels, neto, netn, net, result,
                   gains, num_results, trip_scores, i, idxs, top, results>>

\* line 82
BuildObserved ==
    /\ pc = "l82"
    /\ neto' = BuildNetwork(triples)
    /\ pc' = "l83"
    /\ UNCHANGED <<ofile, nfile, triples, new, ents, rels, netn, net, result,
                   gains, num_results, trip_scores, i, idxs, top, results>>

\* line 83
BuildNew ==
    /\ pc = "l83"
    /\ netn' = BuildNetwork(new)
    /\ pc' = "l99"
    /\ UNCHANGED <<ofile, nfile, triples, new, ents, rels, neto, net, result,
                   gains, num_results, trip_scores, i, idxs, top, results>>

\* the state before cell 3: the two triple files are given, nothing is loaded
LoadStart ==
    /\ pc = "l55"
    /\ ofile \in Files
    /\ nfile \in NewFiles
    /\ triples = <<>> /\ new = <<>> /\ ents = <<>> /\ rels = <<>>
    /\ neto = BuildNetwork(<<>>) /\ netn = BuildNetwork(<<>>)
    /\ net = [old |-> <<>>, new |-> <<>>]
    /\ result = <<>> /\ gains = <<>>
    /\ trip_scores = <<>> /\ i = 0 /\ idxs = <<>> /\ top = <<>>
    /\ results = <<>>

\* cells 3 and 4 do not read num_results
InitLoad == LoadStart /\ num_results = MaxK

NextLoad ==
    \/ ReadObserved
    \/ UniqueObserved
    \/ GetItems
    \/ ReadNew
    \/ BuildObserved
    \/ BuildNew

SpecLoad == InitLoad /\ [][NextLoad]_vars

---------------------------------------------------------------------------
(* Cell 5: centrality of every node in both networks, the changes, the gains *)

\* the centrality routine's result for a graph: one score per node of the
\* graph, in node order
Centralities(graph) ==
    {[j \in DOMAIN graph.nodes |-> <<graph.nodes[j], s[j]>>] :
        s \in [DOMAIN graph.nodes -> Scores]}

\* build_comparison_metrics: the scores of the observed and the emulated graph
ComparisonMetrics(old, newer) == [old |-> old, new |-> newer]

\* generate_node_changes: for each node of the observed graph, its score in the
\* emulated graph (0 when it has none) minus its score in the observed graph
GenerateNodeChanges(metrics) ==
    [j \in DOMAIN metrics.old |->
        <<metrics.old[j][1],
          DictGet(metrics.new, metrics.old[j][1], 0) - metrics.old[j][2]>>]

\* the place of an item in an ascending list: after every value not above it
InsertByValue(sorted, item) ==
    LET k == Cardinality({j \in DOMAIN sorted : sorted[j][2] <= item[2]})
    IN SubSeq(sorted, 1, k) \o <<item>> \o SubSeq(sorted, k + 1, Len(sorted))

InsertByValueDescending(sorted, item) ==
    LET k == Cardinality({j \in DOMAIN sorted : sorted[j][2] >= item[2]})
    IN SubSeq(sorted, 1, k) \o <<item>> \o SubSeq(sorted, k + 1, Len(sorted))

RECURSIVE SortedDescending(_)
SortedDescending(items) ==
    IF items = <<>> THEN <<>>
    ELSE InsertByValueDescending(
             SortedDescending(SubSeq(items, 1, Len(items) - 1)),
             items[Len(items)])

\* {k: v for k, v in sorted(result.items(), key=lambda item: item[1])}:
\* Python's sorted is stable and ascending
RECURSIVE SortedByValue(_)
SortedByValue(items) ==
    IF items = <<>> THEN <<>>
    ELSE InsertByValue(SortedByValue(SubSeq(items, 1, Len(items) - 1)),
                       items[Len(items)])

\* generate_result_lists: "top" keeps the last n items of the ascending
\* ranking, "bottom" the first n; n above the length keeps them all
GenerateResultLists(ranking, n, mode) ==
    IF mode = "top" THEN PyLast(ranking, n)
    ELSE SubSeq(ranking, 1, Min(n, Len(ranking)))

GainsCountAllButOne(ranking) == Len(ranking) - 1

\* the n of line 105: len(result)
GainsCount(ranking) == Len(ranking)

\* line 99
CompareMetrics ==
    /\ pc = "l99"
    /\ \E a \in Centralities(neto), b \in Centralities(netn) :
           net' = ComparisonMetrics(a, b)
    /\ pc' = "l100"
    /\ UNCHANGED <<ofile, nfile, triples, new, ents, rels, neto, netn, result,
                   gains, num_results, trip_scores, i, idxs, top, results>>

\* line 100
NodeChanges ==
    /\ pc = "l100"
    /\ result' = GenerateNodeChanges(net)
    /\ pc' = "l101"
    /\ UNCHANGED <<ofile, nfile, triples, new, ents, rels, neto, netn, net,
                   gains, num_results, trip_scores, i, idxs, top, results>>

\* line 101-102
SortChanges ==
    /\ pc = "l101"
    /\ result' = SortedByValue(result)
    /\ pc' = "l105"
    /\ UNCHANGED <<ofile, nfile, triples, new, ents, rels, neto, netn, net,
                   gains, num_results, trip_scores, i, idxs, top, results>>

\* line 105
TopGains ==
    /\ pc = "l105"
    /\ gains' = GenerateResultLists(result, GainsCount(result), "top")
    /\ pc' = "l123"
    /\ UNCHANGED <<ofile, nfile, triples, new, ents, rels, neto, netn, net,
                   result, num_results, trip_scores, i, idxs, top, results>>

\* the arrays cell 3 can leave in triples
ObservedArrays == {NpUnique(AsTypeInt(ReadTxt(f))) : f \in Files}

\* the arrays cell 4 can leave in new
NewArrays == {AsTypeInt(ReadTxt(f)) : f \in NewFiles}

\* Cell 5 reads the two graphs through the centrality routine only, whose
\* scores depend on nothing but the graph's nodes here: one array for each
\* node order that the arrays can give
OnePerNodeOrder(arrays) ==
    {CHOOSE a \in arrays : NodeOrder(a) = order :
        order \in {NodeOrder(b) : b \in arrays}}

\* the state before cell 5: both networks are built
InitRank ==
    /\ pc = "l99"
    /\ ofile = <<>> /\ nfile = <<>>
    /\ triples \in OnePerNodeOrder(ObservedArrays)
    /\ new \in OnePerNodeOrder(NewArrays)
    /\ ents = ItemsTable("e", MaxNode + 1) /\ rels = ItemsTable("r", MaxRel + 1)
    /\ neto = BuildNetwork(triples) /\ netn = BuildNetwork(new)
    /\ net = [old |-> <<>>, new |-> <<>>]
    /\ result = <<>> /\ gains = <<>>
    /\ num_results = MaxK
    /\ trip_scores = <<>> /\ i = 0 /\ idxs = <<>> /\ top = <<>>
    /\ results = <<>>

NextRank ==
    \/ CompareMetrics
    \/ NodeChanges
    \/ SortChanges
    \/ TopGains

SpecRank == InitRank /\ [][NextRank]_vars

---------------------------------------------------------------------------
(* Cells 6 and 7: scoring the triples, the top num_results, the labels *)

\* np.zeros(n)
NpZeros(n) == [j \in 1..n |-> 0]

TripScoreOnce(g, trip) ==
    IF trip[1] = trip[2] THEN DictGet(g, trip[1], 0)
    ELSE DictGet(g, trip[1], 0) + DictGet(g, trip[2], 0)

\* line 126-127: head, tail, _ = trip; gains.get(head, 0) + gains.get(tail, 0)
TripScore(g, trip) == DictGet(g, trip[1], 0) + DictGet(g, trip[2], 0)

\* trip_scores.argsort(): the indices (from 0) in ascending order of score.
\* numpy's default sort kind is not stable: equal scores come in any order
Argsorts(scores) ==
    {p \in [DOMAIN scores -> 0..(Len(scores) - 1)] :
        /\ \A a, b \in DOMAIN scores : a # b => p[a] # p[b]
        /\ \A a \in 1..(Len(scores) - 1) :
               scores[p[a] + 1] <= scores[p[a + 1] + 1]}

IdxsAscending(scores) == Argsorts(scores)

\* line 129: trip_scores.argsort()[::-1]
Idxs(scores) == {Reverse(p) : p \in Argsorts(scores)}

\* line 130: triples[idxs,][:num_results,:]
TopRows(rows, order, k) ==
    PySliceTo([j \in DOMAIN order |-> rows[order[j] + 1]], k)

\* table[id] of a Python list: ids are not negative, an id from len(table) on
\* raises IndexError (a LookupError)
HasItem(table, id) == id + 1 \in DOMAIN table

\* " ".join(texts)
RECURSIVE JoinSpace(_)
JoinSpace(texts) ==
    IF Len(texts) = 0 THEN ""
    ELSE IF Len(texts) = 1 THEN texts[1]
    ELSE texts[1] \o " " \o JoinSpace(Tail(texts))

\* line 257-260: h, t, r = t rebinds t to the tail id, and 'idxs': t stores it.
\* The idxs field holds the elements of the stored numpy value: one element
\* for a scalar, three for a row
ResultRecord(entities, relations, row, score) ==
    [idxs |-> <<row[2]>>,
     label |-> JoinSpace(<<entities[row[1] + 1], relations[row[3] + 1],
                           entities[row[2] + 1]>>),
     score |-> score]

\* line 123
ZeroScores ==
    /\ pc = "l123"
    /\ trip_scores' = NpZeros(Len(triples))
    /\ i' = 0
    /\ pc' = "l125"
    /\ UNCHANGED <<ofile, nfile, triples, new, ents, rels, neto, netn, net,
                   result, gains, num_results, idxs, top, results>>

\* line 125-127, one round of the loop
ScoreTriple ==
    /\ pc = "l125"
    /\ i < Len(triples)
    /\ trip_scores' = [trip_scores EXCEPT ![i + 1] = TripScore(gains, triples[i + 1])]
    /\ i' = i + 1
    /\ UNCHANGED <<pc, ofile, nfile, triples, new, ents, rels, neto, netn, net,
                   result, gains, num_results, idxs, top, results>>

\* line 129, once the loop is over
SortScores ==
    /\ pc = "l125"
    /\ i = Len(triples)
    /\ \E order \in Idxs(trip_scores) : idxs' = order
    /\ pc' = "l130"
    /\ UNCHANGED <<ofile, nfile, triples, new, ents, rels, neto, netn, net,
                   result, gains, num_results, trip_scores, i, top, results>>

\* line 130 and line 253
TakeTop ==
    /\ pc = "l130"
    /\ top' = TopRows(triples, idxs, num_results)
    /\ results' = <<>>
    /\ i' = 0
    /\ pc' = "l255"
    /\ UNCHANGED <<ofile, nfile, triples, new, ents, rels, neto, netn, net,
                   result, gains, num_results, trip_scores, idxs>>

\* line 255-260, one round of the loop with every id in its table
LabelTriple ==
    /\ pc = "l255"
    /\ i < Len(top)
    /\ LET row == top[i + 1]
           triple_id == idxs[i + 1]
       IN /\ HasItem(ents, row[1]) /\ HasItem(rels, row[3]) /\ HasItem(ents, row[2])
          /\ results' = DictSet(results, triple_id,
                                ResultRecord(ents, rels, row, trip_scores[triple_id + 1]))
    /\ i' = i + 1
    /\ UNCHANGED <<pc, ofile, nfile, triples, new, ents, rels, neto, netn, net,
                   result, gains, num_results, trip_scores, idxs, top>>

\* line 259 raising: an id of the row is not in its table
LookupFails ==
    /\ pc = "l255"
    /\ i < Len(top)
    /\ LET row == top[i + 1]
       IN ~(HasItem(ents, row[1]) /\ HasItem(rels, row[3]) /\ HasItem(ents, row[2]))
    /\ pc' = "error"
    /\ UNCHANGED <<ofile, nfile, triples, new, ents, rels, neto, netn, net,
                   result, gains, num_results, trip_scores, i, idxs, top, results>>

\* the loop of line 255 is over
Finish ==
    /\ pc = "l255"
    /\ i = Len(top)
    /\ pc' = "done"
    /\ UNCHANGED <<ofile, nfile, triples, new, ents, rels, neto, netn, net,
                   result, gains, num_results, trip_scores, i, idxs, top, results>>

\* the gains cell 5 can leave for an observed array: a change per node of the
\* observed graph, ascending
GainsOf(rows) ==
    LET nodes == NodeOrder(rows)
    IN {SortedByValue([j \in DOMAIN nodes |-> <<nodes[j], d[j]>>]) :
           d \in [DOMAIN nodes -> Deltas]}

\* the state before cell 6: triples, tables and gains are there
InitTop ==
    /\ pc = "l123"
    /\ ofile = <<>> /\ nfile = <<>>
    /\ triples \in ObservedArrays
    /\ new = <<>>
    /\ ents \in EntTables
    /\ rels \in RelTables
    /\ neto = BuildNetwork(triples) /\ netn = BuildNetwork(<<>>)
    /\ net = [old |-> <<>>, new |-> <<>>]
    /\ gains \in GainsOf(triples)
    /\ result = gains
    /\ num_results \in Ks
    /\ trip_scores = <<>> /\ i = 0 /\ idxs = <<>> /\ top = <<>>
    /\ results = <<>>

NextTop ==
    \/ ZeroScores
    \/ ScoreTriple
    \/ SortScores
    \/ TakeTop
    \/ LabelTriple
    \/ LookupFails
    \/ Finish

SpecTop == InitTop /\ [][NextTop]_vars

\* lines 123-127 alone: the scoring loop reads triples and gains only
InitScore ==
    /\ InitTop
    /\ ents = ItemsTable("e", MaxNode + 1)
    /\ rels = ItemsTable("r", MaxRel + 1)
    /\ num_results = MaxK

NextScore ==
    \/ ZeroScores
    \/ ScoreTriple

SpecScore == InitScore /\ [][NextScore]_vars

---------------------------------------------------------------------------
(* The whole notebook *)

Init == LoadStart /\ num_results \in Ks

Next == NextLoad \/ NextRank \/ NextTop

Spec == Init /\ [][Next]_vars

---------------------------------------------------------------------------
(* Claims about the top-K result, checked under SpecTop; C6 under SpecScore *)

TopCount == Min(num_results, Len(triples))

\* C1: for k >= 0 a finished run holds exactly min(k, n) records with pairwise
\* distinct triple indices, in non-increasing score order, no omitted triple
\* scores strictly above a retained one, and with k >= n every triple index
\* appears exactly once.
C1_TopKCountOrderAndMaximality ==
    (pc = "done" /\ num_results >= 0) =>
        /\ Len(results) = TopCount
        /\ \A a, b \in DOMAIN results : a # b => results[a][1] # results[b][1]
        /\ \A a, b \in DOMAIN results :
               a < b => results[a][2].score >= results[b][2].score
        /\ \A a \in DOMAIN results :
               /\ results[a][1] + 1 \in DOMAIN triples
               /\ \A id \in 0..(Len(triples) - 1) :
                      id \notin DictKeys(results) =>
                          trip_scores[id + 1] <= trip_scores[results[a][1] + 1]
        /\ num_results >= Len(triples) =>
               DictKeys(results) = 0..(Len(triples) - 1)

\* a finished run that kept one of two triples and left out a lower-scored one
C1_Witness ==
    /\ pc = "done"
    /\ num_results = 1
    /\ Len(triples) = 2
    /\ Len(results) = 1
    /\ \E id \in 0..1 : id \notin DictKeys(results)
                         /\ trip_scores[id + 1] < results[1][2].score

\* C2: ties preserve original triple order: of two retained triples with equal
\* score, the one with the smaller index in the observed array comes first.
C2_TiesKeepTripleOrder ==
    pc = "done" =>
        \A a, b \in DOMAIN results :
            (a < b /\ results[a][2].score = results[b][2].score)
                => results[a][1] < results[b][1]

\* C3: for every k <= 0 and every non-empty triple set the result is empty.
C3_NonPositiveKGivesEmpty ==
    (pc = "done" /\ num_results <= 0 /\ Len(triples) > 0) => results = <<>>

\* C4: every Result Record stored under key triple_id describes the triple at
\* that index of the observed array: its endpoints are the (head, tail,
\* relation) triple, its label is ents[head] + " " + rels[relation] + " " +
\* ents[tail], and its score is the triple score of that index.
C4_RecordDescribesItsTriple ==
    \A a \in DOMAIN results :
        LET id == results[a][1]
            rec == results[a][2]
            trip == triples[id + 1]
        IN /\ rec.idxs = trip
           /\ rec.label = ents[trip[1] + 1] \o " " \o rels[trip[3] + 1]
                               \o " " \o ents[trip[2] + 1]
           /\ rec.score = trip_scores[id + 1]

\* C5: when a retained triple references an id absent from its lookup table,
\* the run fails with LookupError, no record is produced for that triple and
\* no partial result mapping (records of earlier triples) is left.
C5_LookupFailureLeavesNoRecords ==
    pc = "error" =>
        /\ idxs[i + 1] \notin DictKeys(results)
        /\ results = <<>>

\* the gain of a node as the items of gains give it, 0 for a node with none
GainOf(node) ==
    IF \E j \in DOMAIN gains : gains[j][1] = node
    THEN (CHOOSE item \in Range(gains) : item[1] = node)[2]
    ELSE 0

ScoringDone == pc \in {"l130", "l255", "done", "error"} \/ (pc = "l125" /\ i = Len(triples))

\* C6: scoring yields one score per observed triple, score[i] = gains.get(h, 0)
\* + gains.get(t, 0): it depends only on the triple's own head and tail, never
\* on the relation id or on other triples, and a self-loop counts its node's
\* gain twice.
C6_ScoreIsSumOfEndpointGains ==
    ScoringDone =>
        /\ Len(trip_scores) = Len(triples)
        /\ \A a \in DOMAIN triples :
               /\ trip_scores[a] = GainOf(triples[a][1]) + GainOf(triples[a][2])
               /\ triples[a][1] = triples[a][2] =>
                      trip_scores[a] = 2 * GainOf(triples[a][1])
        /\ \A a, b \in DOMAIN triples :
               (triples[a][1] = triples[b][1] /\ triples[a][2] = triples[b][2])
                   => trip_scores[a] = trip_scores[b]

\* scoring is over for a self-loop with a non-zero gain and for two triples
\* that differ in the relation id only
C6_Witness ==
    /\ ScoringDone
    /\ \E a \in DOMAIN triples :
           triples[a][1] = triples[a][2] /\ trip_scores[a] # 0
    /\ \E a, b \in DOMAIN triples :
           /\ triples[a][1] = triples[b][1] /\ triples[a][2] = triples[b][2]
           /\ triples[a][3] # triples[b][3]
           /\ trip_scores[a] # 0

---------------------------------------------------------------------------
(* Claims about the ranking and the gains, checked under SpecRank *)

Ranked == pc \in {"l105", "l123"}

\* C7: the ranking has exactly len(A) entries, its node ids are exactly the
\* keys of A (nodes only in B never appear), each delta is B.get(node, 0) -
\* A[node], and the entries are sorted non-decreasing by delta.
C7_RankingCoversObservedAscending ==
    Ranked =>
        /\ Len(result) = Len(net.old)
        /\ DictKeys(result) = DictKeys(net.old)
        /\ \A j \in DOMAIN result :
               LET node == result[j][1]
                   a == (CHOOSE item \in Range(net.old) : item[1] = node)[2]
                   b == IF \E item \in Range(net.new) : item[1] = node
                        THEN (CHOOSE item \in Range(net.new) : item[1] = node)[2]
                        ELSE 0
               IN result[j][2] = b - a
        /\ \A j \in 1..(Len(result) - 1) : result[j][2] <= result[j + 1][2]

\* a ranking of two observed nodes with different deltas, one of them absent
\* from the emulated graph, which has a node of its own
C7_Witness ==
    /\ Ranked
    /\ Len(result) = 2
    /\ result[1][2] < result[2][2]
    /\ \E n \in DictKeys(net.old) : n \notin DictKeys(net.new)
    /\ \E n \in DictKeys(net.new) : n \notin DictKeys(net.old)
    /\ result # GenerateNodeChanges(net)

---------------------------------------------------------------------------
(* Claims about loading, checked under SpecLoad *)

NoRepeatedRow(rows) == \A a, b \in DOMAIN rows : a # b => rows[a] # rows[b]

UniqueDone == pc \in {"l59", "l78", "l82", "l83", "l99"}

NewRead == pc \in {"l82", "l83", "l99"}

====
